---- MODULE Spec2Model ----
(***************************************************************************)
(* Model of codes/trainer/eval/audio_diffusion_fid.py (AudioDiffusionFid). *)
(*                                                                         *)
(* Spec    : the evaluator of every worker process: __init__, then         *)
(*           perform_eval step by step (auxiliary models, seeding, the     *)
(*           dataset loop, aggregation, the two all-reduce collectives,    *)
(*           restoration), with the exceptions the code can raise.         *)
(* PadSpec : the padding arithmetic of the four sampling variants, applied *)
(*           to bounded input lengths.                                     *)
(***************************************************************************)
EXTENDS Integers, Sequences, FiniteSets, TLC

\* ---------------------------------------------------------------- bounds
MaxN == 4            \* dataset sizes 1..MaxN
MaxW == 2            \* worker counts 1..MaxW
MaxOut == 2100       \* output sizes 0..MaxOut of the variants aligned to 2048
MaxCodes == 40       \* dataset code lengths 0..MaxCodes (tts variant)
MaxCond == 3         \* re-encoded conditioning lengths 0..MaxCond
MaxMel == 24         \* univnet mel lengths 0..MaxMel (tts9_mel variant)
MaxAlign == 6        \* model.alignment_size 1..MaxAlign

\* ------------------------------------------------------ program constants
FixedSeed == 5
FixedAlignment == 2048
TtsSampleRate == 5500

\* ------------------------------------------------------------- variables
VARIABLES
    \* configuration and environment (fixed during a run)
    N,               \* len(self.data)
    W,               \* distributed world size (1: not distributed)
    diffusion_type,  \* opt_eval['diffusion_type']
    training0,       \* the model's mode when perform_eval is called
    rng0,            \* rng0[w]: the generator state when perform_eval is called
    \* per-worker program state
    pc,              \* position of worker w
    skip,            \* self.skip
    diffusion_fn,    \* self.diffusion_fn ("unset" when never assigned)
    local_modules,   \* keys of self.local_modules
    onDevice,        \* auxiliary models currently on the compute device
    saved_rng,       \* the local rng_state
    rng,             \* the process's default generator state <<seed, draws>>
    training,        \* self.model.training
    i,               \* the loop variable
    reads,           \* dataset indices subscripted so far, in order
    processed,       \* dataset indices whose loop body completed, in order
    samplingModes,   \* the model modes seen by the sampler invocations
    files,           \* files written under save_path
    localFd,         \* worker-local frechet distance (-1: not computed)
    localIl,         \* worker-local intelligibility loss (-1: not computed)
    frechet,         \* the frechet_distance tensor <<numerator, divisor>>
    intel,           \* the intelligibility_loss tensor <<numerator, divisor>>
    fdArrived,       \* workers that entered all_reduce(frechet_distance)
    ilArrived,       \* workers that entered all_reduce(intelligibility_loss)
    collectives,     \* the collectives worker w entered, in order
    err,             \* the exception that ended worker w ("none")
    result,          \* the returned dict ("none" before the return)
    \* the sampling step's padding arithmetic (PadSpec)
    variant, cond_len, output_size, factor, alignment, padded_size,
    padding_added, codes_padding, padded_cond_len, output_len, padStatus

evalVars == <<N, W, diffusion_type, training0, rng0, pc, skip, diffusion_fn,
              local_modules, onDevice, saved_rng, rng, training, i, reads,
              processed, samplingModes, files, localFd, localIl, frechet,
              intel, fdArrived, ilArrived, collectives, err, result>>
padVars == <<variant, cond_len, output_size, factor, alignment, padded_size,
             padding_added, codes_padding, padded_cond_len, output_len,
             padStatus>>
vars == <<evalVars, padVars>>

\* ------------------------------------------------------------ evaluation
Workers == 0 .. (W - 1)

RecognizedTypes == {"tts", "original_vocoder", "vocoder", "tts9_mel"}
DiffusionTypes == RecognizedTypes \cup {"unrecognized"}

\* distributed.is_initialized() and distributed.get_world_size() > 1
Distributed == W > 1

\* self.skip as __init__ sets it
SkipOf(world) == IF world > 1 THEN world ELSE 1

\* self.diffusion_fn as the if/elif chain of __init__ leaves it
DiffusionFnOf(mode) ==
    IF mode = "tts" THEN "perform_diffusion_tts"
    ELSE IF mode = "original_vocoder" THEN "perform_original_diffusion_vocoder"
    ELSE IF mode = "vocoder" THEN "perform_diffusion_vocoder"
    ELSE IF mode = "tts9_mel" THEN "perform_diffusion_tts9_mel_from_codes"
    ELSE "unset"

\* the keys of self.local_modules as __init__ leaves them
LocalModulesOf(mode) ==
    IF mode \in {"original_vocoder", "vocoder"} THEN {"dvae"}
    ELSE IF mode = "tts9_mel" THEN {"dvae", "vocoder"}
    ELSE {}

\* generator states: <<seed, numbers drawn since seeding>>
ManualSeed(seed) == <<seed, 0>>
Draw(g) == <<g[1], g[2] + 1>>
\* the caller's generator state: freshly seeded with another seed, or with the
\* fixed seed itself
InitRngStates == {<<0, 0>>, <<FixedSeed, 0>>}

\* values of the worker-local metrics (computed by external metric code)
MetricValues == {0, 1}

\* torch.set_rng_state(rng_state)
SetRngState_Skipped(saved, current) == current
SetRngState(saved, current) == saved

\* self.model.eval() / self.model.train()
ModelEval(mode) == FALSE
ModelTrain_Skipped(mode) == mode
ModelTrain(mode) == TRUE

\* the subscript of self.data in the loop body
DataIndex(iv, rank) == iv + rank

\* f"{rank}_{i}_gen.wav" / f"{rank}_{i}_real.wav", with the example it holds
FileOf_DatasetIndex(rank, iv, kind, example) ==
    [rank |-> rank, index |-> example, kind |-> kind, content |-> example]
FileOf(rank, iv, kind, example) ==
    [rank |-> rank, index |-> iv, kind |-> kind, content |-> example]

RECURSIVE SumUpTo(_, _)
SumUpTo(f, n) == IF n < 0 THEN 0 ELSE f[n] + SumUpTo(f, n - 1)

\* distributed.all_reduce(t): the sum of every worker's tensor
AllReduce(locals, world) == SumUpTo(locals, world - 1)

\* t / distributed.get_world_size()
DivideByWorld_Skipped(total, world) == <<total, 1>>
DivideByWorld(total, world) == <<total, world>>

EvalInit ==
    /\ N \in 1 .. MaxN
    /\ W \in 1 .. MaxW
    /\ diffusion_type \in DiffusionTypes
    /\ training0 \in BOOLEAN
    /\ rng0 \in [0 .. (W - 1) -> InitRngStates]
    /\ pc = [w \in 0 .. (W - 1) |-> "new"]
    /\ skip = [w \in 0 .. (W - 1) |-> 0]
    /\ diffusion_fn = [w \in 0 .. (W - 1) |-> "unset"]
    /\ local_modules = [w \in 0 .. (W - 1) |-> {}]
    /\ onDevice = [w \in 0 .. (W - 1) |-> {}]
    /\ saved_rng = [w \in 0 .. (W - 1) |-> <<0, 0>>]
    /\ rng = rng0
    /\ training = [w \in 0 .. (W - 1) |-> training0]
    /\ i = [w \in 0 .. (W - 1) |-> 0]
    /\ reads = [w \in 0 .. (W - 1) |-> <<>>]
    /\ processed = [w \in 0 .. (W - 1) |-> <<>>]
    /\ samplingModes = [w \in 0 .. (W - 1) |-> {}]
    /\ files = {}
    /\ localFd = [w \in 0 .. (W - 1) |-> -1]
    /\ localIl = [w \in 0 .. (W - 1) |-> -1]
    /\ frechet = [w \in 0 .. (W - 1) |-> <<0, 0>>]
    /\ intel = [w \in 0 .. (W - 1) |-> <<0, 0>>]
    /\ fdArrived = {}
    /\ ilArrived = {}
    /\ collectives = [w \in 0 .. (W - 1) |-> <<>>]
    /\ err = [w \in 0 .. (W - 1) |-> "none"]
    /\ result = [w \in 0 .. (W - 1) |-> "none"]

PadIdle ==
    /\ variant = "none"
    /\ cond_len = 0
    /\ output_size = 0
    /\ factor = 0
    /\ alignment = 0
    /\ padded_size = 0
    /\ padding_added = 0
    /\ codes_padding = 0
    /\ padded_cond_len = 0
    /\ output_len = 0
    /\ padStatus = "idle"

Init == EvalInit /\ PadIdle

\* __init__: never raises on the diffusion type; an unrecognized one leaves
\* self.diffusion_fn unassigned.
Construct(w) ==
    /\ pc[w] = "new"
    /\ skip' = [skip EXCEPT ![w] = SkipOf(W)]
    /\ local_modules' = [local_modules EXCEPT ![w] = LocalModulesOf(diffusion_type)]
    /\ diffusion_fn' = [diffusion_fn EXCEPT ![w] = DiffusionFnOf(diffusion_type)]
    /\ pc' = [pc EXCEPT ![w] = "constructed"]
    /\ UNCHANGED <<N, W, diffusion_type, training0, rng0, onDevice, saved_rng,
                   rng, training, i, reads, processed, samplingModes, files,
                   localFd, localIl, frechet, intel, fdArrived, ilArrived,
                   collectives, err, result, padVars>>

\* perform_eval, lines 198-207: projector, w2v and the local modules go to
\* the compute device.
LoadAuxiliary(w) ==
    /\ pc[w] = "constructed"
    /\ onDevice' = [onDevice EXCEPT ![w] = {"projector", "w2v"} \cup local_modules[w]]
    /\ pc' = [pc EXCEPT ![w] = "loaded"]
    /\ UNCHANGED <<N, W, diffusion_type, training0, rng0, skip, diffusion_fn,
                   local_modules, saved_rng, rng, training, i, reads, processed,
                   samplingModes, files, localFd, localIl, frechet, intel,
                   fdArrived, ilArrived, collectives, err, result, padVars>>

\* perform_eval, lines 210-217: save the generator state, install the fixed
\* seed, switch the model to inference mode, start the loop.
Seed(w) ==
    /\ pc[w] = "loaded"
    /\ saved_rng' = [saved_rng EXCEPT ![w] = rng[w]]
    /\ rng' = [rng EXCEPT ![w] = ManualSeed(FixedSeed)]
    /\ training' = [training EXCEPT ![w] = ModelEval(training[w])]
    /\ i' = [i EXCEPT ![w] = 0]
    /\ pc' = [pc EXCEPT ![w] = "loop"]
    /\ UNCHANGED <<N, W, diffusion_type, training0, rng0, skip, diffusion_fn,
                   local_modules, onDevice, reads, processed, samplingModes,
                   files, localFd, localIl, frechet, intel, fdArrived,
                   ilArrived, collectives, err, result, padVars>>

\* An exception leaves perform_eval at once: nothing after the raising
\* statement runs (there is no try/finally).
Raise(w, kind) ==
    /\ pc' = [pc EXCEPT ![w] = "failed"]
    /\ err' = [err EXCEPT ![w] = kind]

\* One loop iteration whose subscript self.data[i + rank] is out of range.
LoopIndexError(w) ==
    /\ pc[w] = "loop"
    /\ i[w] < N
    /\ DataIndex(i[w], w) >= N
    /\ reads' = [reads EXCEPT ![w] = Append(@, DataIndex(i[w], w))]
    /\ Raise(w, "IndexError")
    /\ UNCHANGED <<N, W, diffusion_type, training0, rng0, skip, diffusion_fn,
                   local_modules, onDevice, saved_rng, rng, training, i,
                   processed, samplingModes, files, localFd, localIl, frechet,
                   intel, fdArrived, ilArrived, collectives, result, padVars>>

\* One loop iteration with self.diffusion_fn never assigned: line 222 raises
\* AttributeError after the audio was loaded.
LoopAttributeError(w) ==
    /\ pc[w] = "loop"
    /\ i[w] < N
    /\ DataIndex(i[w], w) < N
    /\ diffusion_fn[w] = "unset"
    /\ reads' = [reads EXCEPT ![w] = Append(@, DataIndex(i[w], w))]
    /\ Raise(w, "AttributeError")
    /\ UNCHANGED <<N, W, diffusion_type, training0, rng0, skip, diffusion_fn,
                   local_modules, onDevice, saved_rng, rng, training, i,
                   processed, samplingModes, files, localFd, localIl, frechet,
                   intel, fdArrived, ilArrived, collectives, result, padVars>>

LoopStages == <<"load_audio", "sample", "project", "score", "save_gen", "save_real">>
StageNo(stage) == CHOOSE k \in 1 .. Len(LoopStages) : LoopStages[k] = stage

\* The effects of one loop iteration up to (not including) stage number upto;
\* upto = Len(LoopStages) + 1 is the complete body.
LoopEffects(w, upto) ==
    LET d == DataIndex(i[w], w)
        sampled == upto > StageNo("sample") \/ upto = StageNo("sample")
    IN  /\ reads' = [reads EXCEPT ![w] = Append(@, d)]
        /\ rng' = [rng EXCEPT ![w] = IF sampled THEN Draw(@) ELSE @]
        /\ samplingModes' = [samplingModes EXCEPT
                               ![w] = IF sampled THEN @ \cup {training[w]} ELSE @]
        /\ files' = files
             \cup (IF upto > StageNo("save_gen")
                   THEN {FileOf(w, i[w], "gen", d)} ELSE {})
             \cup (IF upto > StageNo("save_real")
                   THEN {FileOf(w, i[w], "real", d)} ELSE {})

\* One complete loop iteration, lines 219-229.
LoopBody(w) ==
    /\ pc[w] = "loop"
    /\ i[w] < N
    /\ DataIndex(i[w], w) < N
    /\ diffusion_fn[w] # "unset"
    /\ LoopEffects(w, Len(LoopStages) + 1)
    /\ processed' = [processed EXCEPT ![w] = Append(@, DataIndex(i[w], w))]
    /\ i' = [i EXCEPT ![w] = @ + skip[w]]
    /\ UNCHANGED <<N, W, diffusion_type, training0, rng0, pc, skip, diffusion_fn,
                   local_modules, onDevice, saved_rng, training, localFd,
                   localIl, frechet, intel, fdArrived, ilArrived, collectives,
                   err, result, padVars>>

\* One loop iteration in which an external call raises (audio load, the
\* sampler, the projector, the scorer, a file write).  A sampler that raises
\* has drawn from the generator.
LoopBodyFail(w, stage) ==
    /\ pc[w] = "loop"
    /\ i[w] < N
    /\ DataIndex(i[w], w) < N
    /\ diffusion_fn[w] # "unset" \/ stage = "load_audio"
    /\ LoopEffects(w, StageNo(stage))
    /\ Raise(w, "ExternalError")
    /\ UNCHANGED <<N, W, diffusion_type, training0, rng0, skip, diffusion_fn,
                   local_modules, onDevice, saved_rng, training, i, processed,
                   localFd, localIl, frechet, intel, fdArrived, ilArrived,
                   collectives, result, padVars>>

\* Lines 230-233: the worker-local metrics (values of the external metric code).
Aggregate(w) ==
    /\ pc[w] = "loop"
    /\ i[w] >= N
    /\ \E fd \in MetricValues, il \in MetricValues :
         /\ localFd' = [localFd EXCEPT ![w] = fd]
         /\ localIl' = [localIl EXCEPT ![w] = il]
         /\ frechet' = [frechet EXCEPT ![w] = <<fd, 1>>]
         /\ intel' = [intel EXCEPT ![w] = <<il, 1>>]
    /\ pc' = [pc EXCEPT ![w] = "aggregated"]
    /\ UNCHANGED <<N, W, diffusion_type, training0, rng0, skip, diffusion_fn,
                   local_modules, onDevice, saved_rng, rng, training, i, reads,
                   processed, samplingModes, files, fdArrived, ilArrived,
                   collectives, err, result, padVars>>

\* Lines 230-233 raising (stack or metric computation).
AggregateFail(w) ==
    /\ pc[w] = "loop"
    /\ i[w] >= N
    /\ Raise(w, "ExternalError")
    /\ UNCHANGED <<N, W, diffusion_type, training0, rng0, skip, diffusion_fn,
                   local_modules, onDevice, saved_rng, rng, training, i, reads,
                   processed, samplingModes, files, localFd, localIl, frechet,
                   intel, fdArrived, ilArrived, collectives, result, padVars>>

\* Line 236: the worker enters all_reduce(frechet_distance) and blocks.
EnterAllReduceFd(w) ==
    /\ pc[w] = "aggregated"
    /\ Distributed
    /\ fdArrived' = fdArrived \cup {w}
    /\ collectives' = [collectives EXCEPT ![w] = Append(@, "frechet_distance")]
    /\ pc' = [pc EXCEPT ![w] = "in_all_reduce_fd"]
    /\ UNCHANGED <<N, W, diffusion_type, training0, rng0, skip, diffusion_fn,
                   local_modules, onDevice, saved_rng, rng, training, i, reads,
                   processed, samplingModes, files, localFd, localIl, frechet,
                   intel, ilArrived, err, result, padVars>>

\* Lines 236-237: the collective completes once every worker entered it; the
\* sum is divided by the world size.
LeaveAllReduceFd(w) ==
    /\ pc[w] = "in_all_reduce_fd"
    /\ fdArrived = Workers
    /\ frechet' = [frechet EXCEPT ![w] = DivideByWorld(AllReduce(localFd, W), W)]
    /\ pc' = [pc EXCEPT ![w] = "fd_reduced"]
    /\ UNCHANGED <<N, W, diffusion_type, training0, rng0, skip, diffusion_fn,
                   local_modules, onDevice, saved_rng, rng, training, i, reads,
                   processed, samplingModes, files, localFd, localIl, intel,
                   fdArrived, ilArrived, collectives, err, result, padVars>>

\* Line 238: the worker enters all_reduce(intelligibility_loss) and blocks.
EnterAllReduceIl(w) ==
    /\ pc[w] = "fd_reduced"
    /\ ilArrived' = ilArrived \cup {w}
    /\ collectives' = [collectives EXCEPT ![w] = Append(@, "intelligibility_loss")]
    /\ pc' = [pc EXCEPT ![w] = "in_all_reduce_il"]
    /\ UNCHANGED <<N, W, diffusion_type, training0, rng0, skip, diffusion_fn,
                   local_modules, onDevice, saved_rng, rng, training, i, reads,
                   processed, samplingModes, files, localFd, localIl, frechet,
                   intel, fdArrived, err, result, padVars>>

\* Lines 238-239.
LeaveAllReduceIl(w) ==
    /\ pc[w] = "in_all_reduce_il"
    /\ ilArrived = Workers
    /\ intel' = [intel EXCEPT ![w] = DivideByWorld(AllReduce(localIl, W), W)]
    /\ pc' = [pc EXCEPT ![w] = "reduced"]
    /\ UNCHANGED <<N, W, diffusion_type, training0, rng0, skip, diffusion_fn,
                   local_modules, onDevice, saved_rng, rng, training, i, reads,
                   processed, samplingModes, files, localFd, localIl, frechet,
                   fdArrived, ilArrived, collectives, err, result, padVars>>

\* Lines 241-248: training mode, the saved generator state, the local modules
\* back to the CPU, the return.
Restore(w) ==
    /\ pc[w] = "reduced" \/ (pc[w] = "aggregated" /\ ~Distributed)
    /\ training' = [training EXCEPT ![w] = ModelTrain(training[w])]
    /\ rng' = [rng EXCEPT ![w] = SetRngState(saved_rng[w], rng[w])]
    /\ onDevice' = [onDevice EXCEPT ![w] = @ \ local_modules[w]]
    /\ result' = [result EXCEPT ![w] = [frechet_distance |-> frechet[w],
                                        intelligibility_loss |-> intel[w]]]
    /\ pc' = [pc EXCEPT ![w] = "done"]
    /\ UNCHANGED <<N, W, diffusion_type, training0, rng0, skip, diffusion_fn,
                   local_modules, saved_rng, i, reads, processed, samplingModes,
                   files, localFd, localIl, frechet, intel, fdArrived,
                   ilArrived, collectives, err, padVars>>

Next ==
    \/ \E w \in Workers : Construct(w)
    \/ \E w \in Workers : LoadAuxiliary(w)
    \/ \E w \in Workers : Seed(w)
    \/ \E w \in Workers : LoopIndexError(w)
    \/ \E w \in Workers : LoopAttributeError(w)
    \/ \E w \in Workers : LoopBody(w)
    \/ \E w \in Workers : \E k \in 1 .. Len(LoopStages) : LoopBodyFail(w, LoopStages[k])
    \/ \E w \in Workers : Aggregate(w)
    \/ \E w \in Workers : AggregateFail(w)
    \/ \E w \in Workers : EnterAllReduceFd(w)
    \/ \E w \in Workers : LeaveAllReduceFd(w)
    \/ \E w \in Workers : EnterAllReduceIl(w)
    \/ \E w \in Workers : LeaveAllReduceIl(w)
    \/ \E w \in Workers : Restore(w)

Spec == Init /\ [][Next]_vars

\* ------------------------------------------------- the sampling variants
\* utils.util.ceil_multiple: the smallest multiple of `multiple` that is >= base
ceil_multiple(base, multiple) ==
    CHOOSE p \in base .. (base + multiple - 1) : p % multiple = 0

\* padded_size = ceil_multiple(output_size, 2048 | self.model.alignment_size)
PaddedSize_AlwaysPads(size, multiple) == size + (multiple - (size % multiple))
PaddedSize(size, multiple) == ceil_multiple(size, multiple)

\* aligned_codes_compression_factor = sample_rate * 221 // 11025
TtsCompressionFactor(sample_rate) == (sample_rate * 221) \div 11025

\* aligned_*_compression_factor = output_size // <conditioning>.shape[-1];
\* the caller has checked that the divisor is not 0
ShapeCompressionFactor(size, length) == size \div length

\* F.pad(codes, (0, padding_needed_for_codes)) when padding_needed_for_codes > 0
PadRight(length, padding) == IF padding > 0 THEN length + padding ELSE length

\* The statements every variant shares, from ceil_multiple to output_shape:
\* padding_added // compression_factor raises ZeroDivisionError on a factor of 0.
PadToMultiple(v, cond, size, fac, multiple) ==
    LET padded == PaddedSize(size, multiple)
        added == padded - size
    IN  /\ variant' = v
        /\ cond_len' = cond
        /\ output_size' = size
        /\ factor' = fac
        /\ alignment' = multiple
        /\ padded_size' = padded
        /\ padding_added' = added
        /\ IF fac = 0
           THEN /\ padStatus' = "ZeroDivisionError"
                /\ codes_padding' = 0
                /\ padded_cond_len' = cond
                /\ output_len' = 0
           ELSE /\ padStatus' = "ok"
                /\ codes_padding' = added \div fac
                /\ padded_cond_len' = PadRight(cond, added \div fac)
                /\ output_len' = padded

\* output_size // <conditioning>.shape[-1] on an empty conditioning sequence
FactorZeroDivision(v, cond, size) ==
    /\ variant' = v
    /\ cond_len' = cond
    /\ output_size' = size
    /\ padStatus' = "ZeroDivisionError"
    /\ factor' = 0
    /\ alignment' = 0
    /\ padded_size' = 0
    /\ padding_added' = 0
    /\ codes_padding' = 0
    /\ padded_cond_len' = cond
    /\ output_len' = 0

\* perform_diffusion_tts(audio, codes, text), sample_rate = 5500
PerformDiffusionTts(codes) ==
    LET fac == TtsCompressionFactor(TtsSampleRate)
    IN  /\ padStatus = "idle"
        /\ PadToMultiple("tts", codes, codes * fac, fac, FixedAlignment)
        /\ UNCHANGED evalVars

\* perform_original_diffusion_vocoder: size = real_resampled.shape[-1],
\* mel = back_to_mel.shape[-1]
PerformOriginalDiffusionVocoder(size, mel) ==
    /\ padStatus = "idle"
    /\ IF mel = 0
       THEN FactorZeroDivision("original_vocoder", mel, size)
       ELSE PadToMultiple("original_vocoder", mel, size,
                          ShapeCompressionFactor(size, mel), FixedAlignment)
    /\ UNCHANGED evalVars

\* perform_diffusion_vocoder: size = real_resampled.shape[-1],
\* codes = mel_codes.shape[-1]
PerformDiffusionVocoder(size, codes) ==
    /\ padStatus = "idle"
    /\ IF codes = 0
       THEN FactorZeroDivision("vocoder", codes, size)
       ELSE PadToMultiple("vocoder", codes, size,
                          ShapeCompressionFactor(size, codes), FixedAlignment)
    /\ UNCHANGED evalVars

\* perform_diffusion_tts9_mel_from_codes: size = univnet_mel.shape[-1],
\* codes = mel_codes.shape[-1]; alignment_size = 0 stands for a model without
\* the attribute, which gets output_shape = univnet_mel.shape.
PerformDiffusionTts9(size, codes, alignment_size) ==
    /\ padStatus = "idle"
    /\ IF codes = 0
       THEN FactorZeroDivision("tts9_mel", codes, size)
       ELSE IF alignment_size > 0
       THEN PadToMultiple("tts9_mel", codes, size,
                          ShapeCompressionFactor(size, codes), alignment_size)
       ELSE /\ variant' = "tts9_mel"
            /\ cond_len' = codes
            /\ output_size' = size
            /\ factor' = ShapeCompressionFactor(size, codes)
            /\ alignment' = 0
            /\ padded_size' = 0
            /\ padding_added' = 0
            /\ codes_padding' = 0
            /\ padded_cond_len' = codes
            /\ output_len' = size
            /\ padStatus' = "ok"
    /\ UNCHANGED evalVars

\* One evaluator, about to sample, whose state the arithmetic does not touch.
EvalIdle ==
    /\ N = 1
    /\ W = 1
    /\ diffusion_type = "tts"
    /\ training0 = TRUE
    /\ rng0 = [w \in {0} |-> <<0, 0>>]
    /\ pc = [w \in {0} |-> "loop"]
    /\ skip = [w \in {0} |-> 1]
    /\ diffusion_fn = [w \in {0} |-> "perform_diffusion_tts"]
    /\ local_modules = [w \in {0} |-> {}]
    /\ onDevice = [w \in {0} |-> {"projector", "w2v"}]
    /\ saved_rng = rng0
    /\ rng = [w \in {0} |-> ManualSeed(FixedSeed)]
    /\ training = [w \in {0} |-> FALSE]
    /\ i = [w \in {0} |-> 0]
    /\ reads = [w \in {0} |-> <<>>]
    /\ processed = [w \in {0} |-> <<>>]
    /\ samplingModes = [w \in {0} |-> {}]
    /\ files = {}
    /\ localFd = [w \in {0} |-> -1]
    /\ localIl = [w \in {0} |-> -1]
    /\ frechet = [w \in {0} |-> <<0, 0>>]
    /\ intel = [w \in {0} |-> <<0, 0>>]
    /\ fdArrived = {}
    /\ ilArrived = {}
    /\ collectives = [w \in {0} |-> <<>>]
    /\ err = [w \in {0} |-> "none"]
    /\ result = [w \in {0} |-> "none"]

PadInit == EvalIdle /\ PadIdle

\* One call of the configured sampling function per behaviour (padStatus is
\* "idle" until the call): its locals start fresh.
PadNext ==
    \/ \E codes \in 0 .. MaxCodes : PerformDiffusionTts(codes)
    \/ \E size \in 0 .. MaxOut, mel \in 0 .. MaxCond :
         PerformOriginalDiffusionVocoder(size, mel)
    \/ \E size \in 0 .. MaxOut, codes \in 0 .. MaxCond :
         PerformDiffusionVocoder(size, codes)
    \/ \E size \in 0 .. MaxMel, codes \in 0 .. MaxCond, a \in 0 .. MaxAlign :
         PerformDiffusionTts9(size, codes, a)

PadSpec == PadInit /\ [][PadNext]_vars

\* ------------------------------------------------------------ properties

\* C1: whenever a sampling variant has run its padding step on an output size
\* >= 0 with alignment multiple m > 0 (2048, or model.alignment_size), the
\* padded size is a multiple of m with padded - m < output_size <= padded,
\* i.e. the smallest multiple of m that is >= output_size.
C1_PaddedSizeIsCeilMultiple ==
    alignment > 0 =>
        /\ variant # "tts9_mel" => alignment = FixedAlignment
        /\ padded_size % alignment = 0
        /\ padded_size - alignment < output_size
        /\ output_size <= padded_size
        /\ padding_added = padded_size - output_size
        /\ \A q \in output_size .. (padded_size - 1) : q % alignment # 0

\* C1 witness: a run aligned to 2048 whose output size lies strictly between
\* 2048 and 4096 and was padded up to 4096.
C1_Witness ==
    /\ padStatus = "ok"
    /\ alignment = FixedAlignment
    /\ output_size > FixedAlignment
    /\ padding_added > 0
    /\ padded_size = 2 * FixedAlignment

\* C2 (as claimed): for every output size and every non-zero conditioning
\* length, every variant's padding step completes without error and yields
\* codes_padding = (padded_size - output_size) // compression_factor >= 0.
C2_PaddingNeverFails ==
    (padStatus # "idle" /\ cond_len # 0) =>
        /\ padStatus = "ok"
        /\ alignment > 0 =>
              /\ codes_padding = (padded_size - output_size) \div factor
              /\ codes_padding >= 0

\* C3 (as claimed): worker w subscripts the dataset at exactly w, w+W, w+2W,
\* ... and every subscript is within the dataset bounds; once every worker is
\* done, every dataset index was processed by exactly one worker.
C3_SliceWithinBounds ==
    /\ \A w \in Workers : \A k \in 1 .. Len(reads[w]) :
          /\ reads[w][k] = w + (k - 1) * W
          /\ reads[w][k] < N
    /\ (\A w \in Workers : pc[w] = "done") =>
          \A d \in 0 .. (N - 1) :
             Cardinality({w \in Workers :
                            \E k \in 1 .. Len(processed[w]) : processed[w][k] = d}) = 1

\* The files holding the audio of dataset entry d.
FilesOfExample(d) == {f \in files : f.content = d}

\* C4 (as claimed): each processed example has exactly two files, named by the
\* worker's rank and the example's dataset index.
C4_FilesNamedByDatasetIndex ==
    \A w \in Workers : \A k \in 1 .. Len(processed[w]) :
        LET d == processed[w][k]
        IN  FilesOfExample(d) =
              {[rank |-> w, index |-> d, kind |-> "gen", content |-> d],
               [rank |-> w, index |-> d, kind |-> "real", content |-> d]}

\* C4 (amended): each processed example has exactly two files, named by the
\* worker's rank and the loop variable i, which is the example's dataset index
\* minus the rank (a multiple of the stride).
C4_FilesNamedByLoopIndex ==
    \A w \in Workers : \A k \in 1 .. Len(processed[w]) :
        LET d == processed[w][k]
        IN  /\ FilesOfExample(d) =
                 {[rank |-> w, index |-> d - w, kind |-> "gen", content |-> d],
                  [rank |-> w, index |-> d - w, kind |-> "real", content |-> d]}
            /\ (d - w) % skip[w] = 0

\* C4 witness: the worker of rank 1 of two has processed two examples.
C4_Witness ==
    /\ W = 2
    /\ Len(processed[1]) = 2
    /\ Cardinality({f \in files : f.rank = 1}) = 4

C6_ModePreserved ==
    \A w \in Workers :
        /\ samplingModes[w] \subseteq {FALSE}
        /\ pc[w] = "done" => training[w] = training0

\* C6 (amended): the model is in inference mode at every sampling invocation,
\* and on return it is in training mode whatever its mode at the call.
C6_TrainingModeOnReturn ==
    \A w \in Workers :
        /\ samplingModes[w] \subseteq {FALSE}
        /\ pc[w] = "done" => training[w] = TRUE

\* C6 witness: a worker called in inference mode sampled and returned.
C6_Witness ==
    \E w \in Workers :
        /\ pc[w] = "done"
        /\ training0 = FALSE
        /\ samplingModes[w] = {FALSE}

\* C7 (as claimed): with an unrecognized diffusion_type no evaluator is ever
\* constructed, no auxiliary model reaches the device, no seed is installed
\* and no sampler runs.
C7_UnrecognizedTypeFailsConstruction ==
    diffusion_type \notin RecognizedTypes =>
        \A w \in Workers :
            /\ pc[w] \in {"new", "failed"}
            /\ pc[w] = "failed" => err[w] = "ConfigurationError"
            /\ onDevice[w] = {}
            /\ rng[w] = rng0[w]
            /\ samplingModes[w] = {}

\* C8: when every worker has returned, with W >= 2 every worker returns the
\* sum of the worker-local values divided by W, for both metrics; with one
\* worker it returns the local values, undivided, having entered no collective.
C8_AllWorkersReturnTheAverage ==
    (\A w \in Workers : pc[w] = "done") =>
        IF W >= 2
        THEN \A w \in Workers :
                /\ result[w].frechet_distance = <<SumUpTo(localFd, W - 1), W>>
                /\ result[w].intelligibility_loss = <<SumUpTo(localIl, W - 1), W>>
                /\ result[w] = result[0]
        ELSE /\ result[0].frechet_distance = <<localFd[0], 1>>
             /\ result[0].intelligibility_loss = <<localIl[0], 1>>
             /\ collectives[0] = <<>>

\* C8 witness: two workers with different local values have both returned.
C8_Witness ==
    /\ W = 2
    /\ \A w \in Workers : pc[w] = "done"
    /\ localFd[0] # localFd[1]
    /\ localIl[0] # localIl[1]

IsPrefix(s, t) == Len(s) <= Len(t) /\ \A k \in 1 .. Len(s) : s[k] = t[k]

\* C9 (as claimed): with W >= 2 workers, a recognized diffusion type and no
\* failing external call, no worker leaves the run before the collectives:
\* workers that left the loop ran equally many iterations, collectives are
\* entered in the order frechet_distance, intelligibility_loss, and no worker
\* stops short of them, so none waits for a peer that never arrives.
C9_NoWorkerMissesTheCollectives ==
    (W >= 2 /\ diffusion_type \in RecognizedTypes
       /\ \A w \in Workers : err[w] # "ExternalError") =>
        /\ \A w \in Workers : pc[w] # "failed"
        /\ \A w \in Workers :
              IsPrefix(collectives[w], <<"frechet_distance", "intelligibility_loss">>)
        /\ \A v, w \in Workers :
              (localFd[v] # -1 /\ localFd[w] # -1) => Len(reads[v]) = Len(reads[w])

\* C10 (as claimed): when perform_eval ends with an exception, the generator
\* state equals the state at the call.
C10_RngRestoredOnFailure ==
    \A w \in Workers : pc[w] = "failed" => rng[w] = rng0[w]

====
